---- MODULE Spec2Model ----
(***************************************************************************)
(* Row-stream engine of neo4rs (lib/src/stream.rs) together with the PULL  *)
(* and DISCARD requests it sends (lib/src/bolt/pull.rs, discard.rs).       *)
(*                                                                         *)
(* One RowStream is driven over one connection.  The connection is a pair  *)
(* of FIFO channels: `sent` (client to server, in wire form) and `inbox`   *)
(* (server to client).  The server is the environment: it answers each     *)
(* request with a complete response sequence.                              *)
(***************************************************************************)
EXTENDS Integers, Sequences, FiniteSets, TLC

\* ------------------------------------------------------------------ bounds
MaxRows == 3          \* records the query produces: 0..MaxRows
MaxFetch == 2         \* fetch_size is drawn from 1..MaxFetch
MaxDone == 2          \* calls of next_or_summary after the stream is Complete
MaxIoErrors == 1      \* connection errors injected into send / recv
MaxDiscardMore == 1   \* SUCCESS{has_more=true} answers to a DISCARD
MaxCount == 3         \* counts given to the request builders: 0..MaxCount
MaxEntries == 3       \* entries of an encoded property map
MaxCalls == 2         \* calls made on one decoded graph element
MaxNodes == 2         \* nodes of an encoded Path
MaxRels == 1          \* relationships of an encoded Path
MaxIndices == 4       \* indices of an encoded Path
MaxFields == 3        \* fields of a structure of any tag
I64Bits == 8          \* width of i64 in the model: the 64 bits of the code, scaled down

\* ----------------------------------------------------------- Option<T>
None == <<>>
Some(x) == <<x>>
IsSome(o) == o /= <<>>
Unwrap(o) == o[1]

\* ------------------------------------------------------- host integers
\* Every integer type keeps its share of the width of i64: u8 an eighth, u32
\* half; the 128-bit types are two bits wider than i64.
IntTypes == {"u8", "u16", "u32", "u64", "usize", "u128",
             "i8", "i16", "i32", "i64", "isize", "i128"}
Signed(t) == t \in {"i8", "i16", "i32", "i64", "isize", "i128"}
Bits(t) ==
    CASE t \in {"u8", "i8"} -> I64Bits \div 8
      [] t \in {"u16", "i16"} -> I64Bits \div 4
      [] t \in {"u32", "i32"} -> I64Bits \div 2
      [] t \in {"u128", "i128"} -> I64Bits + 2
      [] OTHER -> I64Bits
MinOf(t) == IF Signed(t) THEN -(2 ^ (Bits(t) - 1)) ELSE 0
MaxOf(t) == IF Signed(t) THEN 2 ^ (Bits(t) - 1) - 1 ELSE 2 ^ Bits(t) - 1
I64 == MinOf("i64")..MaxOf("i64")

\* `v as i64`: the low 64 bits, read as a signed number
AsI64(v) == ((v - MinOf("i64")) % (2 ^ I64Bits)) + MinOf("i64")

TryFromIntError == [kind |-> "TryFromIntError"]
IntegerOverflow(field) == [kind |-> "IntegerOverflow", field |-> field]

\* a conversion that casts instead of checking
I64Cast(v) == [tag |-> "Ok", value |-> AsI64(v)]

\* i64::try_from(v) / v.try_into(): the value if it fits, else TryFromIntError
I64TryFrom(v) ==
    IF v \in I64 THEN [tag |-> "Ok", value |-> v]
    ELSE [tag |-> "Err", error |-> TryFromIntError]

\* ------------------------------------------------ requests (pull.rs, discard.rs)
PULL_TAG == 63        \* 0x3F
DISCARD_TAG == 47     \* 0x2F

\* Extra { n, qid } as built by Pull::new / Discard::new
ExtraNew(how_many, qid) ==
    [n   |-> IF IsSome(how_many) /\ Unwrap(how_many) >= 0 THEN Unwrap(how_many) ELSE -1,
     qid |-> qid]

PullNew(how_many, qid) == [msg |-> "PULL", extra |-> ExtraNew(how_many, qid)]
PullAll == PullNew(None, None)
PullSome(n) == PullNew(Some(n), None)
\* many(n): n.try_into() or Error::IntegerOverflow("n", e)
PullMany(n) ==
    LET i == I64TryFrom(n)
    IN  IF i.tag = "Ok" THEN [tag |-> "Ok", value |-> PullNew(Some(i.value), None)]
        ELSE [tag |-> "Err", error |-> IntegerOverflow("n")]

DiscardNew(how_many, qid) == [msg |-> "DISCARD", extra |-> ExtraNew(how_many, qid)]
DiscardAll == DiscardNew(None, None)
DiscardSome(n) == DiscardNew(Some(n), None)
DiscardMany(n) ==
    LET i == I64TryFrom(n)
    IN  IF i.tag = "Ok" THEN [tag |-> "Ok", value |-> DiscardNew(Some(i.value), None)]
        ELSE [tag |-> "Err", error |-> IntegerOverflow("n")]

\* for_query stores the id unconditionally
ForQuery(req, query_id) == [req EXCEPT !.extra.qid = Some(query_id)]
ForLastQuery(req) == ForQuery(req, -1)

\* a serializer that writes the optional entry first
SerializeExtraQidFirst(extra) ==
    (IF IsSome(extra.qid) THEN << <<"qid", Unwrap(extra.qid)>> >> ELSE << >>) \o
    << <<"n", extra.n>> >>

\* #[derive(Serialize)] for Extra: "n" always, "qid" skipped when None
SerializeExtra(extra) ==
    << <<"n", extra.n>> >> \o
    (IF IsSome(extra.qid) THEN << <<"qid", Unwrap(extra.qid)>> >> ELSE << >>)

\* serialize_newtype_variant: a structure of one field, the extra dictionary
Serialize(req) ==
    [tag    |-> IF req.msg = "PULL" THEN PULL_TAG ELSE DISCARD_TAG,
     fields |-> << SerializeExtra(req.extra) >>]

\* PackStream markers of the values a request is made of
TINY_STRING == 128    \* 0x80 + length
TINY_MAP == 160       \* 0xA0 + number of entries
TINY_STRUCT == 176    \* 0xB0 + number of fields
INT_8 == 200          \* 0xC8, then one byte
INT_16 == 201         \* 0xC9, then two bytes

\* UTF-8 bytes of the two keys of Extra
Utf8(s) == CASE s = "n" -> <<110>>
             [] s = "qid" -> <<113, 105, 100>>

\* smallest marker that fits: -16..127 inline, else i8, else i16 (wider ones
\* never occur here)
PackInt(v) ==
    IF v >= -16 /\ v <= 127 THEN << v % 256 >>
    ELSE IF v >= -128 /\ v < -16 THEN << INT_8, v % 256 >>
    ELSE << INT_16, (v \div 256) % 256, v % 256 >>
PackString(s) == << TINY_STRING + Len(Utf8(s)) >> \o Utf8(s)

RECURSIVE PackEntries(_)
PackEntries(dict) ==
    IF dict = << >> THEN << >>
    ELSE PackString(Head(dict)[1]) \o PackInt(Head(dict)[2]) \o PackEntries(Tail(dict))
PackMap(dict) == << TINY_MAP + Len(dict) >> \o PackEntries(dict)

\* Message::to_bytes: marker with the field count, the tag byte, the fields
ToBytes(w) == << TINY_STRUCT + Len(w.fields), w.tag >> \o PackMap(w.fields[1])

\* Reading a wire dictionary (what the receiving side sees)
RECURSIVE DictGet(_, _)
DictGet(dict, key) ==
    IF dict = << >> THEN None
    ELSE IF Head(dict)[1] = key THEN Some(Head(dict)[2])
    ELSE DictGet(Tail(dict), key)
WireN(w) == Unwrap(DictGet(w.fields[1], "n"))
WireHasQid(w) == IsSome(DictGet(w.fields[1], "qid"))

\* ------------------------------------------------------------ stream.rs types
\* enum State { Ready, Pulling, Complete(Option<Box<StreamingSummary>>) }
Ready == [tag |-> "Ready"]
Pulling == [tag |-> "Pulling"]
Complete(summary) == [tag |-> "Complete", summary |-> summary]
IsComplete(st) == st.tag = "Complete"

\* enum RowItem { Row(T), Summary(..), Done }, and the Err side of Result
Row(r) == [tag |-> "Row", row |-> r]
Summary(s) == [tag |-> "Summary", summary |-> s]
Done == [tag |-> "Done"]
Err(e) == [tag |-> "Err", error |-> e]
Ok(v) == [tag |-> "Ok", value |-> v]

\* RowItem::into_row
IntoRow(item) == IF item.tag = "Row" THEN Some(item.row) ELSE None

\* errors surfaced by the stream
IOError == [kind |-> "IOError"]
Failure(code, message, msg) ==
    [kind |-> "Failure", code |-> code, message |-> message, msg |-> msg]
UnexpectedMessage(msg) == [kind |-> "UnexpectedMessage", msg |-> msg]
DeserializationError == [kind |-> "DeserializationError"]

\* BoltResponse::into_error / Response::into_error
IntoError(response, msg) ==
    IF response.type = "FAILURE"
    THEN Failure(response.code, response.message, msg)
    ELSE UnexpectedMessage(msg)

\* ----------------------------------------------------- responses on the wire
RECORD(r) == [type |-> "RECORD", rec |-> r]
SUCCESS_HasMore == [type |-> "SUCCESS", has_more |-> TRUE]
SUCCESS_Done(s) == [type |-> "SUCCESS", has_more |-> FALSE, summary |-> s]
FAILURE(code) == [type |-> "FAILURE", code |-> code, message |-> "failed"]
IGNORED == [type |-> "IGNORED"]
NoMsg == [type |-> "NONE"]
IsTerminal(m) == m.type \in {"SUCCESS", "FAILURE", "IGNORED"}

Summaries == {"s1", "s2"}
FailureCodes == {"Neo.ClientError", "Neo.TransientError"}
QueryIds == {-1, 1}

\* ------------------------------- deferred properties (structs/de.rs, node.rs)
\* A property map as it is encoded: entries <<key, value>> in wire order, the
\* value being a null or an integer.
PropKeys == {"age", "name"}
WireValues == {[m |-> "null"], [m |-> "int", v |-> 1], [m |-> "int", v |-> 2]}
RECURSIVE PropertyMapsOf(_)
PropertyMapsOf(n) ==
    IF n = 0 THEN {<< >>}
    ELSE PropertyMapsOf(n - 1) \cup
         {Append(entries, e) : entries \in PropertyMapsOf(n - 1), e \in PropKeys \X WireValues}
PropertyMaps == PropertyMapsOf(MaxEntries)

\* enum Bolt: the variants a property map is made of
BoltInteger(v) == [t |-> "Integer", v |-> v]
\* impl_from!(Integer(i64): u8, u16, u32, i8, i16, i32, i64): i64::from(value),
\* the value held in the 64 bits of an i64
FromTypes == {"u8", "u16", "u32", "i8", "i16", "i32", "i64"}
BoltFrom(v) == BoltInteger(AsI64(v))

\* impl_try_from_int!(u64, isize, usize, u128, i128): match i64::try_from(value)
TryFromTypes == {"u64", "isize", "usize", "u128", "i128"}
BoltTryFrom(v) ==
    LET i == I64TryFrom(v)
    IN  IF i.tag = "Ok" THEN Ok(BoltInteger(i.value)) ELSE Err(i.error)

\* Deserialize for Bolt: visit_i64 is Bolt::Integer(v), visit_u64 is
\* Bolt::Integer(v as i64)
VisitTypes == {"i64", "u64"}
VisitInt(t, v) == IF t = "u64" THEN Ok(BoltInteger(AsI64(v))) ELSE Ok(BoltInteger(v))

\* a host integer of type t, and what it was converted to
NumNew(t, v) == [t |-> t, v |-> v, op |-> "none", bolt |-> None, result |-> None]
NoNum == NumNew("i64", 0)

BoltDictionary(items) == [t |-> "Dictionary", items |-> items]

\* Deserialize for Bolt on one encoded value: visit_i64; the visitor has no
\* visit_unit / visit_none, so a null is an invalid type
VisitValue(w) ==
    IF w.m = "int" THEN Ok(BoltInteger(w.v)) ELSE Err([kind |-> "invalid_type"])

\* Deserialize for Bolt: the loop of visit_map, items.insert(key, value) per entry;
\* the HashMap is its lookup function, from each key to None or Some(value),
\* and insert replaces what the key had
RECURSIVE VisitMapInsert(_, _)
VisitMapInsert(items, entries) ==
    IF entries = << >> THEN Ok(BoltDictionary(items))
    ELSE LET key == Head(entries)[1]
             value == VisitValue(Head(entries)[2])
         IN  IF value.tag = "Err" THEN value
             ELSE VisitMapInsert([items EXCEPT ![key] = Some(value.value)], Tail(entries))
VisitMap(entries) == VisitMapInsert([k \in PropKeys |-> None], entries)

\* a visitor that returns the keys last entry first
KeysVisitMapReversed(entries) ==
    Ok([i \in 1..Len(entries) |-> entries[Len(entries) + 1 - i][1]])

\* Deserialize for Keys: visit_map pushes every key, each value goes to IgnoredAny
KeysVisitMap(entries) == Ok([i \in 1..Len(entries) |-> entries[i][1]])

\* Option<T>::deserialize for T = i64: null is None
NextValue(w) == IF w.m = "null" THEN None ELSE Some(w.v)
DuplicateField(key) == [kind |-> "custom", msg |-> "duplicate field", field |-> key]

\* DeserializeSeed for Single: the loop of visit_map, value being the Option so far
RECURSIVE SingleVisitMap(_, _, _)
SingleVisitMap(key, entries, value) ==
    IF entries = << >> THEN Ok(value)
    ELSE IF Head(entries)[1] = key
         THEN IF IsSome(value)
              THEN Err(DuplicateField(key))
              ELSE SingleVisitMap(key, Tail(entries), NextValue(Head(entries)[2]))
         ELSE SingleVisitMap(key, Tail(entries), value)

\* Data: the property bytes and the read cursor (0: at the map header)
DataNew(bytes) == [bytes |-> bytes, pos |-> 0]
\* a reset that leaves the cursor where it is
ResetKeeps(data) == data
Reset(data) == [data EXCEPT !.pos = 0]

\* packstream::from_bytes_seed / from_bytes_ref: deserialize_map at the cursor;
\* every decode moves the cursor past what it read. visited is what the visitor
\* makes of the map at the start of the bytes.
FromBytes(data, visited) ==
    [data   |-> [data EXCEPT !.pos = Len(data.bytes) + 1],
     result |-> IF data.pos = 0 THEN visited ELSE Err([kind |-> "invalid_type"])]

\* NodeRef / Relationship / UnboundRelationship: properties, and the calls made
NodeNew(properties) == [properties |-> DataNew(properties), calls |-> << >>, alive |-> TRUE]
NoNode == NodeNew(<< >>)
\* one call and what it returned, in a field named after the type of the result:
\* Result<Option<T>> of get, Result<Vec<&str>> of keys, Result<Bolt> of to / into
Call(op, key, result) ==
    CASE op = "get" -> [op |-> op, key |-> key, option |-> result]
      [] op = "keys" -> [op |-> op, key |-> key, keys |-> result]
      [] OTHER -> [op |-> op, key |-> key, bolt |-> result]
Returned(call) ==
    CASE call.op = "get" -> call.option
      [] call.op = "keys" -> call.keys
      [] OTHER -> call.bolt

\* ------------------------------ struct visitors (structs/de.rs: impl_visitor!)
\* impl_visitor!(Type(required fields, [fields of protocol version 5]) == tag)
StructTypes == {"Node", "Relationship", "UnboundRelationship"}
StructDef(typ) ==
    CASE typ = "Node" ->
             [tag |-> 78, required |-> <<"id", "labels", "properties">>,
              optional |-> <<"element_id">>]
      [] typ = "Relationship" ->
             [tag |-> 82,
              required |-> <<"id", "start_node_id", "end_node_id", "type", "properties">>,
              optional |-> <<"element_id", "start_node_element_id", "end_node_element_id">>]
      [] typ = "UnboundRelationship" ->
             [tag |-> 114, required |-> <<"id", "type", "properties">>,
              optional |-> <<"element_id">>]
      [] typ = "Path" ->
             [tag |-> 80, required |-> <<"nodes", "rels", "indices">>, optional |-> << >>]
MaxArity == 8         \* fields of a version 5 Relationship

MissingField(name) == [kind |-> "missing_field", field |-> name]

\* a visitor that never reads the fields of protocol version 5
VisitSeqRequiredOnly(def, fields) ==
    IF Len(fields) < Len(def.required)
    THEN Err(MissingField(def.required[Len(fields) + 1]))
    ELSE Ok([required |-> [i \in 1..Len(def.required) |-> fields[i]],
             optional |-> [j \in 1..Len(def.optional) |-> None]])

\* visit_seq: every required field is next_element() or a missing_field error,
\* every bracketed field is whatever next_element() returns, each on its own
VisitSeq(def, fields) ==
    IF Len(fields) < Len(def.required)
    THEN Err(MissingField(def.required[Len(fields) + 1]))
    ELSE Ok([required |-> [i \in 1..Len(def.required) |-> fields[i]],
             optional |-> [j \in 1..Len(def.optional) |->
                              IF Len(def.required) + j <= Len(fields)
                              THEN Some(fields[Len(def.required) + j])
                              ELSE None]])

\* visit_enum: the tag has to be the one of the type, then the fields are visited
VisitEnum(def, tag, fields) ==
    IF tag /= def.tag
    THEN Err([kind |-> "invalid_type", tag |-> tag])
    ELSE VisitSeq(def, fields)

\* the structure tags of the data model: Node, Relationship, UnboundRelationship,
\* Path, Date, Time, LocalTime, DateTime, DateTimeZoneId, LocalDateTime,
\* Duration, Point2D, Point3D, legacy DateTime, legacy DateTimeZoneId
StructTags == {78, 82, 114, 80, 68, 84, 116, 73, 105, 100, 69, 88, 89, 70, 102}

\* Deserialize for Bolt, visit_enum: the Node arm hands the fields to Node's
\* visitor, every other arm of a known tag is todo!(), any other tag is an
\* invalid_type error
BoltVisitEnum(tag, fields) ==
    IF tag = 78
    THEN LET n == VisitSeq(StructDef("Node"), fields)
         IN  IF n.tag = "Ok" THEN Ok([t |-> "Node", v |-> n.value]) ELSE n
    ELSE IF tag \in StructTags THEN [tag |-> "panic"]
    ELSE Err([kind |-> "invalid_type", tag |-> tag])

\* a structure as it is encoded, and the type it was decoded as
StructNew(tag, fields) == [tag |-> tag, fields |-> fields, typ |-> "none", result |-> None]
NoStruct == StructNew(78, << >>)

\* ------------------------------------------------------- paths (structs/path.rs)
\* Deserialize for PathRef: what the visitor built is checked before it is returned
PathCheckNodesOnly(p) ==
    IF p[1] = << >> THEN Err([kind |-> "custom", msg |-> "must have at least one node"])
    ELSE Ok([nodes |-> p[1], rels |-> p[2], indices |-> p[3]])

PathCheck(p) ==
    IF p[1] = << >> THEN Err([kind |-> "custom", msg |-> "must have at least one node"])
    ELSE IF Len(p[3]) % 2 /= 0 THEN Err([kind |-> "custom", msg |-> "indices must be even"])
    ELSE Ok([nodes |-> p[1], rels |-> p[2], indices |-> p[3]])

\* what an iterator or an accessor gives back: a node, nothing, or a panic
Yield(n) == [tag |-> "Some", node |-> n]
Panic == [tag |-> "panic"]
Nothing == [tag |-> "None"]

\* the index pair read in place of the node index
ExtractRelIndex(rel_and_node) == rel_and_node[1]

\* NodesIter::extract_node_index: rel_and_node[1], the second of the pair
ExtractNodeIndex(rel_and_node) == rel_and_node[2]

\* indices.chunks_exact(2): the k-th pair
Chunk(indices, k) == SubSeq(indices, 2 * k - 1, 2 * k)

\* &self.nodes[usize::try_from(node_index).expect(..)]: a negative index and an
\* index past the end panic
NodeAt(nodes, node_index) ==
    IF node_index < 0 \/ node_index >= Len(nodes) THEN Panic
    ELSE Yield(nodes[node_index + 1])

\* len(): self.indices.len() / 2, which is also the number of chunks_exact(2)
PathLen(p) == Len(p.indices) \div 2

\* struct NodesIter: the chunks taken from the front and from the back, emit_start
NodesIterNew == [front |-> 0, back |-> 0, emit_start |-> TRUE]

\* NodesIter::next: the start node first, then the node of the next chunk
NodesNext(p, it) ==
    IF it.emit_start
    THEN [iter |-> [it EXCEPT !.emit_start = FALSE], item |-> NodeAt(p.nodes, 0)]
    ELSE IF it.front + it.back >= PathLen(p) THEN [iter |-> it, item |-> Nothing]
    ELSE [iter |-> [it EXCEPT !.front = @ + 1],
          item |-> NodeAt(p.nodes, ExtractNodeIndex(Chunk(p.indices, it.front + 1)))]

\* NodesIter::next_back: the node of the last chunk left, the start node after them
NodesNextBack(p, it) ==
    IF it.front + it.back < PathLen(p)
    THEN [iter |-> [it EXCEPT !.back = @ + 1],
          item |-> NodeAt(p.nodes, ExtractNodeIndex(Chunk(p.indices, PathLen(p) - it.back)))]
    ELSE IF it.emit_start
    THEN [iter |-> [it EXCEPT !.emit_start = FALSE], item |-> NodeAt(p.nodes, 0)]
    ELSE [iter |-> it, item |-> Nothing]

\* an nth that skips n chunks whether or not the start node is still to come
NodesNthOfChunks(p, it, n) ==
    IF n > 0
    THEN IF n >= PathLen(p) - it.front - it.back
         THEN [iter |-> [it EXCEPT !.emit_start = FALSE, !.front = PathLen(p) - it.back],
               item |-> Nothing]
         ELSE [iter |-> [it EXCEPT !.emit_start = FALSE, !.front = @ + n + 1],
               item |-> NodeAt(p.nodes,
                               ExtractNodeIndex(Chunk(p.indices, it.front + n + 1)))]
    ELSE NodesNext(p, it)

\* NodesIter::nth: indices.nth(n - usize::from(take(&mut self.emit_start))) for
\* n > 0, where ChunksExact::nth past the end leaves no chunk; next() for n = 0
NodesNth(p, it, n) ==
    IF n > 0
    THEN LET skip == n - (IF it.emit_start THEN 1 ELSE 0)
         IN  IF skip >= PathLen(p) - it.front - it.back
             THEN [iter |-> [it EXCEPT !.emit_start = FALSE, !.front = PathLen(p) - it.back],
                   item |-> Nothing]
             ELSE [iter |-> [it EXCEPT !.emit_start = FALSE, !.front = @ + skip + 1],
                   item |-> NodeAt(p.nodes,
                                   ExtractNodeIndex(Chunk(p.indices, it.front + skip + 1)))]
    ELSE NodesNext(p, it)

\* NodesIter::len, count and size_hint: indices.len() + usize::from(emit_start)
NodesLen(p, it) == PathLen(p) - it.front - it.back + (IF it.emit_start THEN 1 ELSE 0)

\* NodesIter::last: the node of the last chunk left, else the start node if it
\* is still to come
NodesLast(p, it) ==
    IF it.front + it.back < PathLen(p)
    THEN NodeAt(p.nodes, ExtractNodeIndex(Chunk(p.indices, PathLen(p) - it.back)))
    ELSE IF it.emit_start THEN NodeAt(p.nodes, 0)
    ELSE Nothing

\* UnboundRelationship::bind: the relationship with the ids of its two nodes
Bind(rel, start_node_id, end_node_id) ==
    [id |-> rel, start_node_id |-> start_node_id, end_node_id |-> end_node_id]

\* an extract_segment that binds every relationship in the direction of travel
ExtractSegmentForward(p, last_node, rel_and_node) ==
    LET next_node_index == ExtractNodeIndex(rel_and_node)
        rel_index == rel_and_node[1]
        abs_index == IF rel_index > 0 THEN rel_index ELSE -rel_index
    IN  IF \/ next_node_index < 0
           \/ rel_index = 0
           \/ next_node_index >= Len(p.nodes)
           \/ abs_index - 1 >= Len(p.rels)
        THEN Panic
        ELSE [tag          |-> "Some",
              start        |-> p.nodes[last_node + 1],
              relationship |-> Bind(p.rels[abs_index], p.nodes[last_node + 1],
                                    p.nodes[next_node_index + 1]),
              end          |-> p.nodes[next_node_index + 1]]

\* SegmentsIter::extract_segment: try_from(node index).expect, assert_ne!(rel_index, 0)
\* and the three slice indexings panic; last_node is a node index already used
ExtractSegment(p, last_node, rel_and_node) ==
    LET next_node_index == ExtractNodeIndex(rel_and_node)
        rel_index == rel_and_node[1]
        abs_index == IF rel_index > 0 THEN rel_index ELSE -rel_index
        start_node_index == IF rel_index > 0 THEN last_node ELSE next_node_index
        end_node_index == IF rel_index > 0 THEN next_node_index ELSE last_node
    IN  IF \/ next_node_index < 0
           \/ rel_index = 0
           \/ next_node_index >= Len(p.nodes)
           \/ abs_index - 1 >= Len(p.rels)
        THEN Panic
        ELSE [tag          |-> "Some",
              start        |-> p.nodes[last_node + 1],
              relationship |-> Bind(p.rels[abs_index], p.nodes[start_node_index + 1],
                                    p.nodes[end_node_index + 1]),
              end          |-> p.nodes[next_node_index + 1]]

\* SegmentsIter::len, count and size_hint: the chunks left
SegmentsLen(p, it) == PathLen(p) - it.front

\* an encoded Path structure, before anything was done with it
PathNew(fields) ==
    [fields |-> fields, result |-> None, iter |-> None, yielded |-> << >>,
     last |-> Nothing, start |-> Nothing, end |-> Nothing, calls |-> << >>,
     segs |-> None, segments |-> << >>, relationships |-> << >>]
NoPath == PathNew(<< >>)

VARIABLES
    qid, fetch_size, state, buffer,   \* struct RowStream
    pc,          \* where the consumer of the stream is
    caller,      \* who called next_or_summary: "direct" or "adapter"
    sent,        \* requests written to the connection, in wire form
    inbox,       \* responses the server has dispatched and the client has not read
    srv,         \* the server's side of the result stream
    out,         \* history: every value next_or_summary has returned
    hist,        \* history: counters of what happened on the connection
    fin,         \* history of the finish call
    ad,          \* the TryStream adapter built over the stream, if any
    req,         \* the request under construction by the builders
    node,        \* a graph element with deferred properties, and what was read from it
    strct,       \* an encoded structure, and what a struct visitor made of it
    path,        \* an encoded Path, what it decoded to, and what was read from it
    num          \* a host integer, and the Integer value made of it

vars == <<qid, fetch_size, state, buffer, pc, caller, sent, inbox, srv, out, hist,
          fin, ad, req, node, strct, path, num>>

streamVars == <<qid, fetch_size, state, buffer, pc, caller, sent, inbox, srv, out,
                hist, fin, ad>>
\* the values handed to the decoders
decVars == <<node, strct, path, num>>

NoFin == [called |-> FALSE, startState |-> Ready, sentBefore |-> 0, answer |-> NoMsg,
          result |-> None]
Pending == <<"pending">>
Resolved(v) == <<"resolved", v>>
NoAdapter == [kind |-> "none", used |-> FALSE, st |-> "idle", convert |-> "Ok",
              start |-> 0, yielded |-> << >>, sender |-> "none", future |-> Pending]
NoReq == [built |-> FALSE, r |-> PullAll, via |-> "new", wire |-> None, bytes |-> << >>,
          many |-> None, failed |-> None]

\* RowStream::new: state Ready, empty buffer, nothing sent yet
InitStream ==
    /\ qid \in QueryIds
    /\ fetch_size \in 1..MaxFetch
    /\ state = Ready
    /\ buffer = << >>
    /\ pc = "idle"
    /\ caller = "direct"
    /\ sent = << >>
    /\ inbox = << >>
    /\ \E total \in 0..MaxRows, s \in Summaries :
          srv = [state |-> "Streaming", total |-> total, next |-> 0, read |-> 0,
                 summary |-> s, discardMore |-> 0]
    /\ out = << >>
    /\ hist = [termRecv |-> 0, hasMore |-> 0, ioErrs |-> 0, doneCalls |-> 0,
               released |-> FALSE, dropState |-> None]
    /\ fin = NoFin
    /\ ad = NoAdapter

Init == InitStream /\ req = NoReq /\ node = NoNode /\ strct = NoStruct /\ path = NoPath
        /\ num = NoNum

\* ------------------------------------------------------------- the server
\* The database server at the other end of the connection (spec 4.3): it reads
\* the requests in order and answers each with a complete response sequence.
Min(a, b) == IF a < b THEN a ELSE b
Records(from, count) == [i \in 1..count |-> RECORD(from + i)]

ServerRespond(responses, newState, newNext, more) ==
    /\ inbox' = inbox \o responses
    /\ srv' = [srv EXCEPT !.state = newState, !.next = newNext, !.read = srv.read + 1,
                          !.discardMore = srv.discardMore + more]

\* PULL on an open result: up to n records, then SUCCESS{has_more} or the summary
ServerPull ==
    /\ srv.read < Len(sent)
    /\ sent[srv.read + 1].tag = PULL_TAG
    /\ srv.state = "Streaming"
    /\ LET n == WireN(sent[srv.read + 1])
           avail == srv.total - srv.next
           cnt == IF n < 0 THEN avail ELSE Min(n, avail)
       IN  ServerRespond(
               Records(srv.next, cnt) \o
                   << IF srv.next + cnt < srv.total THEN SUCCESS_HasMore
                      ELSE SUCCESS_Done(srv.summary) >>,
               IF srv.next + cnt < srv.total THEN "Streaming" ELSE "Ready",
               srv.next + cnt, 0)
    /\ UNCHANGED <<qid, fetch_size, state, buffer, pc, caller, sent, out, hist, fin, ad, req, decVars>>

\* the query fails while streaming: some records, then FAILURE
ServerPullFailure ==
    /\ srv.read < Len(sent)
    /\ sent[srv.read + 1].tag = PULL_TAG
    /\ srv.state = "Streaming"
    /\ LET n == WireN(sent[srv.read + 1])
           avail == srv.total - srv.next
           cnt == IF n < 0 THEN avail ELSE Min(n, avail)
       IN  \E k \in 0..cnt, code \in FailureCodes :
               ServerRespond(Records(srv.next, k) \o << FAILURE(code) >>,
                             "Failed", srv.next + k, 0)
    /\ UNCHANGED <<qid, fetch_size, state, buffer, pc, caller, sent, out, hist, fin, ad, req, decVars>>

\* DISCARD on an open result: the summary; a server may also answer has_more
ServerDiscard ==
    /\ srv.read < Len(sent)
    /\ sent[srv.read + 1].tag = DISCARD_TAG
    /\ srv.state = "Streaming"
    /\ \/ ServerRespond(<< SUCCESS_Done(srv.summary) >>, "Ready", srv.total, 0)
       \/ /\ srv.discardMore < MaxDiscardMore
          /\ ServerRespond(<< SUCCESS_HasMore >>, "Streaming", srv.next, 1)
       \/ \E code \in FailureCodes :
              ServerRespond(<< FAILURE(code) >>, "Failed", srv.next, 0)
    /\ UNCHANGED <<qid, fetch_size, state, buffer, pc, caller, sent, out, hist, fin, ad, req, decVars>>

\* no open result: FAILURE; after a FAILURE every request is IGNORED
ServerNoStream ==
    /\ srv.read < Len(sent)
    /\ srv.state \in {"Ready", "Failed"}
    /\ IF srv.state = "Failed"
       THEN ServerRespond(<< IGNORED >>, "Failed", srv.next, 0)
       ELSE ServerRespond(<< FAILURE("Neo.ClientError") >>, "Failed", srv.next, 0)
    /\ UNCHANGED <<qid, fetch_size, state, buffer, pc, caller, sent, out, hist, fin, ad, req, decVars>>

\* ------------------------------------------------- RowStream::next_or_summary
\* the value next_or_summary returns goes to its caller
Return(item) ==
    /\ out' = Append(out, item)
    /\ pc' = IF caller = "direct" THEN "idle" ELSE "ret"

\* the consumer calls next_or_summary
CallNextOrSummary ==
    /\ pc = "idle"
    /\ ad.kind = "none"
    /\ ~(state = Complete(None) /\ hist.doneCalls >= MaxDone)
    /\ pc' = "next"
    /\ caller' = "direct"
    /\ UNCHANGED hist
    /\ UNCHANGED <<qid, fetch_size, state, buffer, sent, inbox, srv, out, fin, ad, req, decVars>>

\* variant of NextPop: the front row is returned and left in the buffer
NextPopFront ==
    /\ pc = "next"
    /\ buffer /= << >>
    /\ buffer' = buffer
    /\ Return(Row(Head(buffer)))
    /\ UNCHANGED hist
    /\ UNCHANGED <<qid, fetch_size, state, caller, sent, inbox, srv, fin, ad, req, decVars>>

\* if let Some(row) = self.buffer.pop_front() { break Ok(RowItem::Row(row)) }
NextPop ==
    /\ pc = "next"
    /\ buffer /= << >>
    /\ buffer' = Tail(buffer)
    /\ Return(Row(Head(buffer)))
    /\ UNCHANGED hist
    /\ UNCHANGED <<qid, fetch_size, state, caller, sent, inbox, srv, fin, ad, req, decVars>>

\* variant of StreamPull: pulls everything instead of one batch
StreamPullAll == ForQuery(PullAll, qid)

\* the PULL the stream sends in state Ready
StreamPull == ForQuery(PullSome(fetch_size), qid)

\* State::Ready: send PULL, then state = Pulling
NextSendPull ==
    /\ pc = "next"
    /\ buffer = << >>
    /\ state = Ready
    /\ sent' = Append(sent, Serialize(StreamPull))
    /\ state' = Pulling
    /\ UNCHANGED hist
    /\ UNCHANGED <<qid, fetch_size, buffer, pc, caller, inbox, srv, out, fin, ad, req, decVars>>

\* variant of NextSendError: the state is advanced before the send is awaited
NextSendErrorPulling ==
    /\ pc = "next"
    /\ buffer = << >>
    /\ state = Ready
    /\ hist.ioErrs < MaxIoErrors
    /\ state' = Pulling
    /\ Return(Err(IOError))
    /\ hist' = [hist EXCEPT !.ioErrs = @ + 1]
    /\ UNCHANGED <<qid, fetch_size, buffer, caller, sent, inbox, srv, fin, ad, req, decVars>>

\* State::Ready: connection.send_as(pull).await? fails
NextSendError ==
    /\ pc = "next"
    /\ buffer = << >>
    /\ state = Ready
    /\ hist.ioErrs < MaxIoErrors
    /\ Return(Err(IOError))
    /\ hist' = [hist EXCEPT !.ioErrs = @ + 1]
    /\ UNCHANGED <<qid, fetch_size, state, buffer, caller, sent, inbox, srv, fin, ad, req, decVars>>

\* variant of PullResponseState: has_more keeps the stream Pulling
PullResponseStateKeepsPulling(m) ==
    IF m.type = "SUCCESS" /\ ~m.has_more THEN Complete(Some(m.summary)) ELSE Pulling

\* the state after a response to PULL was received in state Pulling
PullResponseState(m) ==
    IF m.type = "SUCCESS" /\ m.has_more THEN Ready
    ELSE IF m.type = "SUCCESS" THEN Complete(Some(m.summary))
    ELSE Pulling

\* State::Pulling: receive one message
NextRecv ==
    /\ pc = "next"
    /\ buffer = << >>
    /\ state = Pulling
    /\ inbox /= << >>
    /\ LET m == Head(inbox) IN
       /\ inbox' = Tail(inbox)
       /\ state' = PullResponseState(m)
       /\ hist' = [hist EXCEPT !.termRecv = @ + (IF IsTerminal(m) THEN 1 ELSE 0),
                               !.hasMore = @ + (IF m = SUCCESS_HasMore THEN 1 ELSE 0)]
       /\ IF m.type = "RECORD"
          THEN /\ buffer' = Append(buffer, m.rec)
               /\ UNCHANGED <<pc, out>>
          ELSE IF m.type = "SUCCESS"
          THEN UNCHANGED <<buffer, pc, out>>
          ELSE /\ Return(Err(IntoError(m, "PULL")))
               /\ UNCHANGED buffer
    /\ UNCHANGED <<qid, fetch_size, caller, sent, srv, fin, ad, req, decVars>>

\* State::Pulling: connection.recv_as(..).await? fails
NextRecvError ==
    /\ pc = "next"
    /\ buffer = << >>
    /\ state = Pulling
    /\ hist.ioErrs < MaxIoErrors
    /\ Return(Err(IOError))
    /\ hist' = [hist EXCEPT !.ioErrs = @ + 1]
    /\ UNCHANGED <<qid, fetch_size, state, buffer, caller, sent, inbox, srv, fin, ad, req, decVars>>

\* variant of NextComplete: the summary is read but left in the state
NextCompleteNoTake ==
    /\ pc = "next"
    /\ buffer = << >>
    /\ IsComplete(state)
    /\ state' = state
    /\ Return(IF IsSome(state.summary) THEN Summary(Unwrap(state.summary)) ELSE Done)
    /\ hist' = [hist EXCEPT !.doneCalls = @ + 1]
    /\ UNCHANGED <<qid, fetch_size, buffer, caller, sent, inbox, srv, fin, ad, req, decVars>>

\* State::Complete(ref mut summary): summary.take()
NextComplete ==
    /\ pc = "next"
    /\ buffer = << >>
    /\ IsComplete(state)
    /\ state' = Complete(None)
    /\ Return(IF IsSome(state.summary) THEN Summary(Unwrap(state.summary)) ELSE Done)
    /\ hist' = [hist EXCEPT !.doneCalls = @ + (IF IsSome(state.summary) THEN 0 ELSE 1)]
    /\ UNCHANGED <<qid, fetch_size, buffer, caller, sent, inbox, srv, fin, ad, req, decVars>>

\* ------------------------------------------------------- RowStream::finish
\* variant of StreamDiscard: discards one batch instead of everything
StreamDiscardBatch == ForQuery(DiscardSome(fetch_size), qid)

\* the DISCARD finish sends
StreamDiscard == ForQuery(DiscardAll, qid)

\* finish(mut self, handle): the stream and the handle are consumed by the call
CallFinish ==
    /\ pc = "idle"
    /\ ad.kind = "none"
    /\ pc' = "finish"
    /\ fin' = [called |-> TRUE, startState |-> state, sentBefore |-> Len(sent),
               answer |-> NoMsg, result |-> None]
    /\ UNCHANGED hist
    /\ UNCHANGED <<qid, fetch_size, state, buffer, caller, sent, inbox, srv, out, ad, req, decVars>>

\* what finish returns once the state is Complete(s): Ok(s.map(|o| *o))
FinishValue(st) == Ok(st.summary)

\* if let State::Complete(s) = self.state { return Ok(s.map(|o| *o)) }
FinishReturn ==
    /\ pc = "finish"
    /\ IsComplete(state)
    /\ pc' = "finished"
    /\ fin' = [fin EXCEPT !.result = Some(FinishValue(state))]
    /\ hist' = [hist EXCEPT !.released = TRUE]
    /\ UNCHANGED <<qid, fetch_size, state, buffer, caller, sent, inbox, srv, out, ad, req, decVars>>

\* send_recv_as(Discard::all().for_query(self.qid)): the send half
FinishSend ==
    /\ pc = "finish"
    /\ ~IsComplete(state)
    /\ sent' = Append(sent, Serialize(StreamDiscard))
    /\ pc' = "finish_recv"
    /\ UNCHANGED hist
    /\ UNCHANGED <<qid, fetch_size, state, buffer, caller, inbox, srv, out, fin, ad, req, decVars>>

\* send_recv_as(..).await? fails on the connection (either half)
FinishIoError ==
    /\ pc \in {"finish", "finish_recv"}
    /\ ~IsComplete(state)
    /\ hist.ioErrs < MaxIoErrors
    /\ pc' = "finished"
    /\ fin' = [fin EXCEPT !.result = Some(Err(IOError))]
    /\ hist' = [hist EXCEPT !.ioErrs = @ + 1, !.released = TRUE]
    /\ UNCHANGED <<qid, fetch_size, state, buffer, caller, sent, inbox, srv, out, ad, req, decVars>>

\* the state after finish matched the summary message answering its DISCARD
DiscardResponseState(st, m) ==
    IF m.type = "SUCCESS" /\ ~m.has_more THEN Complete(Some(m.summary))
    ELSE IF m.type = "SUCCESS" THEN st
    ELSE Complete(None)

\* send_recv_as: the receive half, then match summary { .. }
FinishRecv ==
    /\ pc = "finish_recv"
    /\ inbox /= << >>
    /\ LET m == Head(inbox) IN
       /\ inbox' = Tail(inbox)
       /\ IF m.type = "RECORD"
          THEN \* a RECORD is no Summary<Streaming>: recv_as fails, `?` returns
               /\ pc' = "finished"
               /\ fin' = [fin EXCEPT !.answer = m,
                                     !.result = Some(Err(DeserializationError))]
               /\ hist' = [hist EXCEPT !.released = TRUE]
               /\ UNCHANGED state
          ELSE /\ state' = DiscardResponseState(state, m)
               /\ hist' = [hist EXCEPT !.termRecv = @ + 1,
                                       !.released = (m.type = "FAILURE")]
               /\ IF m.type = "FAILURE"
                  THEN /\ pc' = "finished"
                       /\ fin' = [fin EXCEPT !.answer = m,
                                  !.result = Some(Err(Failure(m.code, m.message, "DISCARD")))]
                  ELSE /\ pc' = "finish"
                       /\ fin' = [fin EXCEPT !.answer = m]
    /\ UNCHANGED <<qid, fetch_size, buffer, caller, sent, srv, out, ad, req, decVars>>

Finish == FinishReturn \/ FinishSend \/ FinishIoError \/ FinishRecv

\* ----------------------------------------------------------------- drop
\* RowStream and DetachedRowStream have no Drop impl: dropping the stream drops
\* its fields, which hands the ManagedConnection back to the pool.
DropStream ==
    /\ pc = "idle"
    /\ ad.kind = "none"
    /\ pc' = "dropped"
    /\ hist' = [hist EXCEPT !.released = TRUE,
                            !.dropState = Some(state)]
    /\ UNCHANGED <<qid, fetch_size, state, buffer, caller, sent, inbox, srv, out, fin, ad, req, decVars>>

\* ------------------------------------------------- the TryStream adapters
AdapterKinds == {"into", "split", "mut"}
\* convert: Ok (into_stream, mut_stream) never fails; row.to::<T>() and
\* row.get::<T>(column) (the _as and column variants) may fail on a row
Converts == {"Ok", "to"}

\* into_stream* / split_into_stream* / mut_*stream*: build the adapter.  The
\* into and split kinds take the stream by value, the mut kind borrows it.
\* split_into_stream_convert creates the oneshot channel of the summary.
MakeAdapter ==
    /\ pc = "idle"
    /\ ad.kind = "none"
    /\ ~ad.used
    /\ \E kind \in AdapterKinds, convert \in Converts :
          ad' = [kind |-> kind, used |-> TRUE, st |-> "idle", convert |-> convert,
                 start |-> Len(out), yielded |-> << >>,
                 sender |-> IF kind = "split" THEN "held" ELSE "none",
                 future |-> Pending]
    /\ UNCHANGED hist
    /\ UNCHANGED <<qid, fetch_size, state, buffer, pc, caller, sent, inbox, srv, out, fin, req, decVars>>

\* poll_next of the adapter: try_unfold calls stream.next_or_summary (the mut
\* kind: stream.next, which calls next_or_summary)
AdapterPoll ==
    /\ pc = "idle"
    /\ ad.kind /= "none"
    /\ ad.st = "idle"
    /\ pc' = "next"
    /\ caller' = "adapter"
    /\ ad' = [ad EXCEPT !.st = "polling"]
    /\ UNCHANGED hist
    /\ UNCHANGED <<qid, fetch_size, state, buffer, sent, inbox, srv, out, fin, req, decVars>>

\* variant of AdapterRow: the row is filtered out instead of yielded
AdapterRowFiltered(a, item, ok) ==
    IF ok THEN [a EXCEPT !.st = "idle"]
    ELSE [a EXCEPT !.yielded = Append(@, Err(DeserializationError)), !.st = "ended"]

\* what the adapter does with a row: Some(element) to yield it, or a failed
\* conversion (Error::DeserializationError)
AdapterRow(a, item, ok) ==
    IF ok THEN [a EXCEPT !.yielded = Append(@, Ok(item.row)), !.st = "idle"]
    ELSE [a EXCEPT !.yielded = Append(@, Err(DeserializationError)), !.st = "ended"]

\* variant of AdapterItem: the split closure never sends the summary
AdapterItemNoSend(a, item) ==
    IF item.tag = "Err"
    THEN [a EXCEPT !.yielded = Append(@, item), !.st = "ended"]
    ELSE IF a.kind = "mut" \/ item.tag = "Done"
    THEN [a EXCEPT !.st = "ended"]
    ELSE a

\* what the adapter does with a non-row item of next_or_summary.
\*   into/split: Summary is filtered out (split sends it into the channel first)
\*     and the inner stream is polled again; Done ends the stream.
\*   mut: next() maps Summary and Done to None, which ends the stream.
\* An Err is yielded and ends the stream (try_unfold).
AdapterItem(a, item) ==
    IF item.tag = "Err"
    THEN [a EXCEPT !.yielded = Append(@, item), !.st = "ended"]
    ELSE IF (a.kind = "mut" /\ IntoRow(item) = None) \/ item.tag = "Done"
    THEN [a EXCEPT !.st = "ended"]
    ELSE IF a.kind = "split" /\ a.sender = "held"
    THEN [a EXCEPT !.sender = "sent", !.future = Resolved(Some(item.summary))]
    ELSE a

\* next_or_summary returned to the adapter
AdapterReturn ==
    /\ pc = "ret"
    /\ LET item == out[Len(out)] IN
       /\ IF item.tag = "Row"
          THEN \E ok \in BOOLEAN :
                  /\ (ad.convert = "Ok" => ok)
                  /\ ad' = AdapterRow(ad, item, ok)
          ELSE ad' = AdapterItem(ad, item)
       /\ pc' = IF ad'.st = "polling" THEN "next" ELSE "idle"
       /\ UNCHANGED hist
    /\ UNCHANGED <<qid, fetch_size, state, buffer, caller, sent, inbox, srv, out, fin, req, decVars>>

\* the adapter is dropped.  into/split own the stream and the handle, which are
\* dropped with it, as is the oneshot sender held by the split closure: the
\* receiver then yields Err, which .ok().flatten() turns into None.  The mut
\* kind only ends its borrow of the stream.
AdapterDrop ==
    /\ pc = "idle"
    /\ ad.kind /= "none"
    /\ ad.st \in {"idle", "ended"}
    /\ IF ad.kind = "mut"
       THEN /\ ad' = [ad EXCEPT !.kind = "none"]
            /\ UNCHANGED hist
            /\ UNCHANGED pc
       ELSE /\ ad' = [ad EXCEPT !.st = "dropped",
                        !.sender = IF @ = "held" THEN "dropped" ELSE @,
                        !.future = IF ad.sender = "held" THEN Resolved(None) ELSE @]
            /\ hist' = [hist EXCEPT !.released = TRUE, !.dropState = Some(state)]
            /\ pc' = "dropped"
    /\ UNCHANGED <<qid, fetch_size, state, buffer, caller, sent, inbox, srv, out, fin, req, decVars>>

Adapter == MakeAdapter \/ AdapterPoll \/ AdapterReturn \/ AdapterDrop

\* ---------------------------------------------- building requests (pull.rs, discard.rs)
QidArgs == {-1, 0, 1, 2}

\* counts given to some(n: u32) and to many(n): small ones, and the ends of
\* i64, of u64 and of i128
SomeArgs == (0..MaxCount) \cup {42}
ManyArgs == (-2..MaxCount) \cup {42}
            \cup {MinOf("i128"), MinOf("i64") - 1, MinOf("i64"), MaxOf("i64") - 1,
                  MaxOf("i64"), MaxOf("i64") + 1, MaxOf("u64"), MaxOf("i128")}

\* Pull::all / Pull::some(n), and the same for Discard
ReqNew ==
    /\ ~req.built
    /\ req.many = None
    /\ \E r \in {PullAll, DiscardAll}
                \cup {PullSome(n) : n \in SomeArgs} \cup {DiscardSome(n) : n \in SomeArgs} :
          req' = [NoReq EXCEPT !.built = TRUE, !.r = r]
    /\ UNCHANGED <<streamVars, decVars>>

\* Pull::many(n) for n of any integer type, Discard::many(n: u64)
ReqMany ==
    /\ ~req.built
    /\ req.many = None
    /\ \E msg \in {"PULL", "DISCARD"}, n \in ManyArgs :
          /\ msg = "DISCARD" => n \in MinOf("u64")..MaxOf("u64")
          /\ LET r == IF msg = "PULL" THEN PullMany(n) ELSE DiscardMany(n)
             IN  req' = IF r.tag = "Ok"
                        THEN [NoReq EXCEPT !.built = TRUE, !.r = r.value,
                                           !.many = Some([msg |-> msg, n |-> n])]
                        ELSE [NoReq EXCEPT !.failed = Some(r.error),
                                           !.many = Some([msg |-> msg, n |-> n])]
    /\ UNCHANGED <<streamVars, decVars>>

\* .for_query(query_id)
ReqForQuery ==
    /\ req.built
    /\ req.wire = None
    /\ \E q \in QidArgs : req' = [req EXCEPT !.r = ForQuery(@, q), !.via = "for_query"]
    /\ UNCHANGED <<streamVars, decVars>>

\* .for_last_query()
ReqForLastQuery ==
    /\ req.built
    /\ req.wire = None
    /\ req' = [req EXCEPT !.r = ForLastQuery(@), !.via = "for_last_query"]
    /\ UNCHANGED <<streamVars, decVars>>

\* to_bytes(): the request is serialized
ReqSerialize ==
    /\ req.built
    /\ req.wire = None
    /\ req' = [req EXCEPT !.wire = Some(Serialize(req.r)),
                           !.bytes = ToBytes(Serialize(req.r))]
    /\ UNCHANGED <<streamVars, decVars>>

\* --------------------------------- reading deferred properties (node.rs, rel.rs)
\* get(key): reset, then a seeded decode of the one key
NodeGet ==
    /\ node.alive
    /\ Len(node.calls) < MaxCalls
    /\ \E key \in PropKeys \cup {"missing"} :
          LET data == Reset(node.properties)
              r == FromBytes(data, SingleVisitMap(key, data.bytes, None))
          IN  node' = [node EXCEPT !.properties = r.data,
                                   !.calls = Append(@, Call("get", key, r.result))]
    /\ UNCHANGED <<streamVars, req, strct, path, num>>

\* keys(): to::<Keys>()
NodeKeys ==
    /\ node.alive
    /\ Len(node.calls) < MaxCalls
    /\ LET data == Reset(node.properties)
           r == FromBytes(data, KeysVisitMap(data.bytes))
       IN  node' = [node EXCEPT !.properties = r.data,
                                !.calls = Append(@, Call("keys", "", r.result))]
    /\ UNCHANGED <<streamVars, req, strct, path, num>>

\* to::<Bolt>(): reset, then a full decode
NodeTo ==
    /\ node.alive
    /\ Len(node.calls) < MaxCalls
    /\ LET data == Reset(node.properties)
           r == FromBytes(data, VisitMap(data.bytes))
       IN  node' = [node EXCEPT !.properties = r.data,
                                !.calls = Append(@, Call("to", "", r.result))]
    /\ UNCHANGED <<streamVars, req, strct, path, num>>

\* into::<Bolt>(): a full decode of properties.into_inner(); the element is consumed
NodeInto ==
    /\ node.alive
    /\ LET data == DataNew(node.properties.bytes)
           r == FromBytes(data, VisitMap(data.bytes))
       IN  node' = [node EXCEPT !.alive = FALSE,
                                !.calls = Append(@, Call("into", "", r.result))]
    /\ UNCHANGED <<streamVars, req, strct, path, num>>

\* ------------------------------------ decoding structures (node.rs, rel.rs, urel.rs)
\* Deserialize for NodeRef / Relationship / UnboundRelationship through visit_enum.
\* The visitor reads at most its own fields; structures with more fields than
\* the type has are left out.
StructVisitEnum ==
    /\ strct.typ = "none"
    /\ \E typ \in StructTypes :
          LET def == StructDef(typ) IN
          /\ Len(strct.fields) <= Len(def.required) + Len(def.optional)
          /\ strct' = [strct EXCEPT !.typ = typ,
                                    !.result = Some(VisitEnum(def, strct.tag, strct.fields))]
    /\ UNCHANGED <<streamVars, req, node, path, num>>

\* Deserialize for Bolt (the generic value) through visit_enum
StructVisitBolt ==
    /\ strct.typ = "none"
    /\ Len(strct.fields) <= Len(StructDef("Node").required) + Len(StructDef("Node").optional)
    /\ strct' = [strct EXCEPT !.typ = "Bolt",
                              !.result = Some(BoltVisitEnum(strct.tag, strct.fields))]
    /\ UNCHANGED <<streamVars, req, node, path, num>>

\* Bolt::from(value) for the integer types that always fit
NumFrom ==
    /\ num.op = "none"
    /\ num.t \in FromTypes
    /\ num' = [num EXCEPT !.op = "from", !.bolt = Some(BoltFrom(num.v))]
    /\ UNCHANGED <<streamVars, req, node, strct, path>>

\* Bolt::try_from(value) for the integer types that may not fit
NumTryFrom ==
    /\ num.op = "none"
    /\ num.t \in TryFromTypes
    /\ num' = [num EXCEPT !.op = "try_from", !.result = Some(BoltTryFrom(num.v))]
    /\ UNCHANGED <<streamVars, req, node, strct, path>>

\* an integer of the wire handed to Bolt's visitor as i64 or as u64
NumVisit ==
    /\ num.op = "none"
    /\ num.t \in VisitTypes
    /\ num' = [num EXCEPT !.op = "visit", !.result = Some(VisitInt(num.t, num.v))]
    /\ UNCHANGED <<streamVars, req, node, strct, path>>

\* the same through visit_seq, for a deserializer that hands over the fields
\* without the tag
StructVisitSeq ==
    /\ strct.typ = "none"
    /\ \E typ \in StructTypes :
          LET def == StructDef(typ) IN
          /\ strct.tag = def.tag
          /\ Len(strct.fields) <= Len(def.required) + Len(def.optional)
          /\ strct' = [strct EXCEPT !.typ = typ,
                                    !.result = Some(VisitSeq(def, strct.fields))]
    /\ UNCHANGED <<streamVars, req, node, path, num>>

\* ------------------------------------------------------ using a Path (path.rs)
\* Deserialize for PathRef: the struct visitor, and then the checks
PathDeserialize ==
    /\ path.result = None
    /\ LET p == VisitEnum(StructDef("Path"), StructDef("Path").tag, path.fields)
       IN  path' = [path EXCEPT !.result =
                       Some(IF p.tag = "Ok" THEN PathCheck(p.value.required) ELSE p)]
    /\ UNCHANGED <<streamVars, req, node, strct, num>>

\* the Path that was deserialized
ThePath == Unwrap(path.result).value
IsPath == IsSome(path.result) /\ Unwrap(path.result).tag = "Ok"

\* start(): &self.nodes[0]
PathStart ==
    /\ IsPath
    /\ path.start = Nothing
    /\ path' = [path EXCEPT !.start = NodeAt(ThePath.nodes, 0)]
    /\ UNCHANGED <<streamVars, req, node, strct, num>>

\* end(): self.nodes().last().unwrap()
PathEnd ==
    /\ IsPath
    /\ path.end = Nothing
    /\ path' = [path EXCEPT !.end = NodesLast(ThePath, NodesIterNew)]
    /\ UNCHANGED <<streamVars, req, node, strct, num>>

\* nodes(): NodesIter::new, nothing read from the pairs, the start node to emit
PathNodes ==
    /\ IsPath
    /\ path.iter = None
    /\ path' = [path EXCEPT !.iter = Some(NodesIterNew)]
    /\ UNCHANGED <<streamVars, req, node, strct, num>>

\* a call on the nodes() iterator gave r: the iterator moves, the item is noted
IterCalled(op, n, r) ==
    [path EXCEPT !.iter = Some(r.iter),
                 !.last = r.item,
                 !.yielded = IF r.item.tag = "Some" THEN Append(@, r.item.node) ELSE @,
                 !.calls = Append(@, [op |-> op, n |-> n, item |-> r.item])]

\* the iterator is used until it returns None; a panic ends its use
IterInUse == IsSome(path.iter) /\ (path.calls = << >> \/ path.last.tag = "Some")

\* NodesIter::next
NodesIterNext ==
    /\ IterInUse
    /\ path' = IterCalled("next", 0, NodesNext(ThePath, Unwrap(path.iter)))
    /\ UNCHANGED <<streamVars, req, node, strct, num>>

\* NodesIter::next_back
NodesIterNextBack ==
    /\ IterInUse
    /\ path' = IterCalled("next_back", 0, NodesNextBack(ThePath, Unwrap(path.iter)))
    /\ UNCHANGED <<streamVars, req, node, strct, num>>

\* NodesIter::nth
NodesIterNth ==
    /\ IterInUse
    /\ \E n \in 0..2 :
          path' = IterCalled("nth", n, NodesNth(ThePath, Unwrap(path.iter), n))
    /\ UNCHANGED <<streamVars, req, node, strct, num>>

\* segments() and relationships(): SegmentsIter::new, the latter mapped to the
\* relationship of each segment; a new iterator once the last one is used up
SegmentsIterNew(kind) == [kind |-> kind, front |-> 0, last_node |-> 0, state |-> "new"]

PathSegments ==
    /\ IsPath
    /\ path.segments = << >>
    /\ IsSome(path.segs) => Unwrap(path.segs).state = "None"
    /\ path' = [path EXCEPT !.segs = Some(SegmentsIterNew("segments"))]
    /\ UNCHANGED <<streamVars, req, node, strct, num>>

PathRelationships ==
    /\ IsPath
    /\ path.relationships = << >>
    /\ IsSome(path.segs) => Unwrap(path.segs).state = "None"
    /\ path' = [path EXCEPT !.segs = Some(SegmentsIterNew("relationships"))]
    /\ UNCHANGED <<streamVars, req, node, strct, num>>

\* SegmentsIter::next, and the map of relationships()
SegmentsIterNext ==
    /\ IsSome(path.segs)
    /\ Unwrap(path.segs).state \in {"new", "Some"}
    /\ LET it == Unwrap(path.segs)
           item == IF it.front >= PathLen(ThePath) THEN Nothing
                   ELSE ExtractSegment(ThePath, it.last_node,
                                       Chunk(ThePath.indices, it.front + 1))
       IN  path' = [path EXCEPT
                       !.segs = Some(IF item.tag = "Some"
                                     THEN [it EXCEPT !.front = @ + 1,
                                                     !.last_node = ExtractNodeIndex(
                                                         Chunk(ThePath.indices, it.front + 1)),
                                                     !.state = "Some"]
                                     ELSE [it EXCEPT !.state = item.tag]),
                       !.segments =
                           IF item.tag = "Some" /\ it.kind = "segments"
                           THEN Append(@, [start |-> item.start,
                                           relationship |-> item.relationship,
                                           end |-> item.end])
                           ELSE @,
                       !.relationships =
                           IF item.tag = "Some" /\ it.kind = "relationships"
                           THEN Append(@, item.relationship)
                           ELSE @]
    /\ UNCHANGED <<streamVars, req, node, strct, num>>

NextOrSummary ==
    \/ NextPop
    \/ NextSendPull
    \/ NextSendError
    \/ NextRecv
    \/ NextRecvError
    \/ NextComplete

Server == ServerPull \/ ServerPullFailure \/ ServerDiscard \/ ServerNoStream

Next ==
    \/ CallNextOrSummary
    \/ NextOrSummary
    \/ CallFinish
    \/ Finish
    \/ DropStream
    \/ Adapter
    \/ Server

Spec == Init /\ [][Next]_vars

\* The request builders on their own, next to an untouched stream.
InitReq ==
    /\ InitStream
    /\ qid = 1
    /\ fetch_size = 1
    /\ srv.total = 0
    /\ srv.summary = "s1"
    /\ req = NoReq
    /\ node = NoNode
    /\ strct = NoStruct
    /\ path = NoPath
    /\ num = NoNum

NextReq == ReqNew \/ ReqMany \/ ReqForQuery \/ ReqForLastQuery \/ ReqSerialize

SpecReq == InitReq /\ [][NextReq]_vars

\* A decoded graph element on its own: any property map, then any calls.
InitProps ==
    /\ InitStream
    /\ qid = 1
    /\ fetch_size = 1
    /\ srv.total = 0
    /\ srv.summary = "s1"
    /\ req = NoReq
    /\ \E properties \in PropertyMaps : node = NodeNew(properties)
    /\ strct = NoStruct
    /\ path = NoPath
    /\ num = NoNum

NextProps == NodeGet \/ NodeKeys \/ NodeTo \/ NodeInto

SpecProps == InitProps /\ [][NextProps]_vars

\* A struct visitor on its own: any structure of up to MaxArity fields.
InitStruct ==
    /\ InitStream
    /\ qid = 1
    /\ fetch_size = 1
    /\ srv.total = 0
    /\ srv.summary = "s1"
    /\ req = NoReq
    /\ node = NoNode
    /\ \E typ \in StructTypes, fields \in UNION {[1..n -> 1..2] : n \in 0..MaxArity} :
          strct = StructNew(StructDef(typ).tag, fields)
    /\ path = NoPath
    /\ num = NoNum

NextStruct == StructVisitEnum \/ StructVisitSeq

SpecStruct == InitStruct /\ [][NextStruct]_vars

\* An integer of any host type, converted to an Integer value.
InitInt ==
    /\ InitStream
    /\ qid = 1
    /\ fetch_size = 1
    /\ srv.total = 0
    /\ srv.summary = "s1"
    /\ req = NoReq
    /\ node = NoNode
    /\ strct = NoStruct
    /\ path = NoPath
    /\ \E t \in IntTypes : \E v \in MinOf(t)..MaxOf(t) : num = NumNew(t, v)

NextInt == NumFrom \/ NumTryFrom \/ NumVisit

SpecInt == InitInt /\ [][NextInt]_vars

\* A structure of any tag, decoded into the generic value or into a type.
InitBolt ==
    /\ InitStream
    /\ qid = 1
    /\ fetch_size = 1
    /\ srv.total = 0
    /\ srv.summary = "s1"
    /\ req = NoReq
    /\ node = NoNode
    /\ \E tag \in StructTags \cup {0, 79, 255},
          fields \in UNION {[1..n -> 1..2] : n \in 0..MaxFields} :
          strct = StructNew(tag, fields)
    /\ path = NoPath
    /\ num = NoNum

NextBolt == StructVisitBolt \/ StructVisitEnum

SpecBolt == InitBolt /\ [][NextBolt]_vars

\* A Path on its own: any lists of nodes, relationships and indices, in a
\* structure of up to three fields.
InitPath ==
    /\ InitStream
    /\ qid = 1
    /\ fetch_size = 1
    /\ srv.total = 0
    /\ srv.summary = "s1"
    /\ req = NoReq
    /\ node = NoNode
    /\ strct = NoStruct
    /\ num = NoNum
    /\ \E n \in 0..MaxNodes, r \in 0..MaxRels, k \in 0..3,
          indices \in UNION {[1..i -> -1..MaxNodes] : i \in 0..MaxIndices} :
          path = PathNew(SubSeq(<<[i \in 1..n |-> 10 + i], [i \in 1..r |-> 100 + i], indices>>,
                                1, k))

NextPath == PathDeserialize \/ PathStart \/ PathEnd \/ PathNodes \/ NodesIterNext

SpecPath == InitPath /\ [][NextPath]_vars

\* The segments and the relationships of a Path.
NextSegments == PathDeserialize \/ PathSegments \/ PathRelationships \/ SegmentsIterNext

SpecSegments == InitPath /\ [][NextSegments]_vars

\* The nodes() iterator of a deserialized Path, used from both ends.
InitPathIter ==
    /\ InitStream
    /\ qid = 1
    /\ fetch_size = 1
    /\ srv.total = 0
    /\ srv.summary = "s1"
    /\ req = NoReq
    /\ node = NoNode
    /\ strct = NoStruct
    /\ num = NoNum
    /\ \E n \in 1..MaxNodes, pairs \in 0..(MaxIndices \div 2) :
          \E indices \in [1..(2 * pairs) -> -1..MaxNodes] :
             LET fields == <<[i \in 1..n |-> 10 + i], [i \in 1..MaxRels |-> 100 + i], indices>>
             IN  path = [PathNew(fields) EXCEPT !.result = Some(PathCheck(fields))]

NextPathIter == PathNodes \/ NodesIterNext \/ NodesIterNextBack \/ NodesIterNth

SpecPathIter == InitPathIter /\ [][NextPathIter]_vars

\* ================================================================ properties
NoErr(items) == \A i \in 1..Len(items) : items[i].tag /= "Err"
IsRow(item) == item.tag = "Row"
IsOk(item) == item.tag = "Ok"
NotErr(item) == item.tag /= "Err"
\* what next_or_summary returned since the adapter was built
AdapterItems == SubSeq(out, ad.start + 1, Len(out))
\* ... and that the adapter has already looked at
AdapterSeen ==
    IF pc = "ret" THEN SubSeq(AdapterItems, 1, Len(AdapterItems) - 1) ELSE AdapterItems
SummaryAt(items) == {i \in 1..Len(items) : items[i].tag = "Summary"}
Discards == {i \in 1..Len(sent) : sent[i].tag = DISCARD_TAG}
\* requests whose terminating SUCCESS / FAILURE / IGNORED the client has not read
Outstanding == Len(sent) - hist.termRecv

\* C1: the values next_or_summary returns are Row(r1), ..., Row(rk) in the
\* order the server dispatched the records, then (only after all n records)
\* Summary(s) once, then only Done.
C1_RowsSummaryDone ==
    LET items == SelectSeq(out, NotErr) IN
    \E k \in 0..Len(items) :
        /\ k <= srv.next
        /\ \A i \in 1..k : items[i] = Row(i)
        /\ k < Len(items) =>
              /\ k = srv.total
              /\ items[k + 1] = Summary(srv.summary)
              /\ \A j \in (k + 2)..Len(items) : items[j] = Done

C1_Witness ==
    /\ Len(out) = MaxRows + 3
    /\ NoErr(out)
    /\ hist.hasMore >= 1
    /\ out[MaxRows + 1] = Summary(srv.summary)
    /\ out[MaxRows + 3] = Done

\* C2 (as claimed): after next_or_summary returned the server's FAILURE to a
\* PULL, the stream state is Complete(None).
C2_FailureCompletes ==
    (/\ Len(out) > 0
     /\ out[Len(out)].tag = "Err"
     /\ out[Len(out)].error.kind = "Failure"
     /\ ~fin.called)
        => state = Complete(None)

\* C3 (as claimed): at most one request of the stream awaits its terminating
\* response (already on a connection that never reported an error).
C3_OneOutstanding == hist.ioErrs = 0 => Outstanding <= 1

\* C4 (as claimed): a stream dropped before it is Complete has sent exactly
\* one DISCARD when its connection is released.
C4_DropSendsDiscard ==
    (/\ IsSome(hist.dropState)
     /\ ~IsComplete(Unwrap(hist.dropState))
     /\ Len(SelectSeq(out, IsRow)) > 0
     /\ hist.released)
        => Cardinality(Discards) = 1

\* C5: finish on a Complete stream sends nothing and returns the stored
\* summary; otherwise everything it sends is DISCARD{n=-1, qid}, and it returns
\* Ok(Some(summary)) on SUCCESS without has_more, Ok(None) on IGNORED and
\* Error::Failure{code, message, "DISCARD"} on FAILURE.
C5_Finish ==
    pc = "finished" =>
        LET mine == SubSeq(sent, fin.sentBefore + 1, Len(sent))
            a == fin.answer
        IN  IF IsComplete(fin.startState)
            THEN /\ mine = << >>
                 /\ fin.result = Some(Ok(fin.startState.summary))
            ELSE /\ \A i \in 1..Len(mine) :
                        mine[i] = [tag |-> DISCARD_TAG,
                                   fields |-> << << <<"n", -1>>, <<"qid", qid>> >> >>]
                 /\ a /= NoMsg => mine /= << >>
                 /\ (a.type = "SUCCESS" /\ ~a.has_more) =>
                        fin.result = Some(Ok(Some(a.summary)))
                 /\ a.type = "IGNORED" => fin.result = Some(Ok(None))
                 /\ a.type = "FAILURE" =>
                        fin.result = Some(Err(Failure(a.code, a.message, "DISCARD")))
                 /\ fin.result /= Some(Err(IOError)) => a /= NoMsg

C5_Witness ==
    /\ pc = "finished"
    /\ ~IsComplete(fin.startState)
    /\ fin.answer.type = "SUCCESS"
    /\ fin.result = Some(Ok(Some(srv.summary)))

\* C6 (as claimed): finish after a mut stream that was consumed to its end, on
\* a query that ended with a summary, returns Ok(Some(summary)).
C6_FinishAfterMutStream ==
    (/\ pc = "finished"
     /\ ad.used /\ ad.kind = "none" /\ ad.st = "ended"
     /\ NoErr(ad.yielded)
     /\ SummaryAt(AdapterItems) /= {})
        => fin.result = Some(Ok(Some(srv.summary)))

\* C7: a stream consumed through an adapter has sent only the PULLs of
\* next_or_summary, one per batch (1 + the number of SUCCESS{has_more} read)
\* once the adapter has ended, and no DISCARD; the adapter yields the rows
\* next_or_summary returned, in the same order.
C7_AdaptersOnlyPull ==
    ad.kind /= "none" =>
        LET rows == SelectSeq(AdapterSeen, IsRow)
            oks == SelectSeq(ad.yielded, IsOk)
        IN  /\ \A i \in 1..Len(sent) : sent[i] = Serialize(StreamPull)
            /\ Len(sent) <= 1 + hist.hasMore
            /\ (ad.st = "ended" /\ NoErr(ad.yielded)) => Len(sent) = 1 + hist.hasMore
            /\ Len(oks) <= Len(rows)
            /\ \A i \in 1..Len(oks) : oks[i] = Ok(rows[i].row)
            /\ NoErr(ad.yielded) => Len(oks) = Len(rows)

C7_Witness ==
    /\ ad.kind = "into"
    /\ ad.st = "ended"
    /\ ad.start = 0
    /\ Len(ad.yielded) = MaxRows
    /\ NoErr(ad.yielded)
    /\ Len(sent) >= 2

\* C8: the summary future of a split stream resolves to Some(summary) when,
\* and only when, the row sequence was polled past the last row of a stream
\* that ended with a summary (all rows yielded first); it resolves to None
\* when the row sequence is dropped before that, and is never left pending
\* by a drop.
C8_SummaryFuture ==
    ad.kind = "split" =>
        LET rows == SelectSeq(AdapterSeen, IsRow)
            oks == SelectSeq(ad.yielded, IsOk)
            pastLast == SummaryAt(AdapterSeen) /= {}
        IN  /\ ad.future = Resolved(Some(srv.summary)) =>
                  /\ pastLast
                  /\ Len(oks) = Len(rows)
                  /\ Len(SelectSeq(out, IsRow)) = srv.total
            /\ pastLast => ad.future = Resolved(Some(srv.summary))
            /\ ad.future \in {Pending, Resolved(None), Resolved(Some(srv.summary))}
            /\ ad.future = Resolved(None) => ad.st = "dropped"
            /\ ad.st = "dropped" => ad.future /= Pending

C8_Witness ==
    /\ ad.kind = "split"
    /\ ad.st = "ended"
    /\ Len(ad.yielded) >= 2
    /\ ad.future = Resolved(Some(srv.summary))

\* C9: a message read in state Pulling moves the state to Ready on
\* SUCCESS{has_more=true}, to Complete(Some(summary)) on SUCCESS without
\* has_more, and leaves it Pulling on RECORD.
C9_PullingTransitions ==
    [][(/\ pc = "next" /\ state = Pulling /\ buffer = << >>
        /\ inbox /= << >> /\ inbox' = Tail(inbox))
        => LET m == Head(inbox) IN
           /\ (m.type = "SUCCESS" /\ m.has_more) => state' = Ready
           /\ (m.type = "SUCCESS" /\ ~m.has_more) => state' = Complete(Some(m.summary))
           /\ m.type = "RECORD" => state' = Pulling]_vars

C9_Witness ==
    /\ pc = "next"
    /\ state = Ready
    /\ hist.hasMore >= 1
    /\ Len(sent) = hist.hasMore

\* C10 (as claimed): a request that targets the last started query (qid = -1)
\* is serialized without a "qid" entry.
C10_LastQueryOmitsQid ==
    (IsSome(req.wire) /\ req.r.extra.qid = Some(-1)) => ~WireHasQid(Unwrap(req.wire))

\* C11 (as claimed): the n of every Pull and Discard built through all(), some(n)
\* or many(n) is a positive count or exactly -1; a count of 0 is replaced by -1.
C11_PositiveOrAll ==
    req.built => (req.r.extra.n > 0 \/ req.r.extra.n = -1)

\* C12: a serialized Pull / Discard is a structure with its tag and exactly one
\* field, a dictionary whose first entry is "n" and whose second entry is "qid"
\* exactly when for_query was called; all() serializes to {n: -1}, and
\* Discard::some(42).for_query(1) to the bytes B1 2F A2 81 6E 2A 83 71 69 64 01.
C12_SerializedShape ==
    IsSome(req.wire) =>
        LET w == Unwrap(req.wire)
            dict == w.fields[1]
        IN  /\ w.tag = (IF req.r.msg = "PULL" THEN PULL_TAG ELSE DISCARD_TAG)
            /\ Len(w.fields) = 1
            /\ dict[1][1] = "n"
            /\ Len(dict) = (IF req.via = "new" THEN 1 ELSE 2)
            /\ (req.via /= "new" => dict[2][1] = "qid")
            /\ (req.r \in {PullAll, DiscardAll} => dict = << <<"n", -1>> >>)
            /\ (req.r = ForQuery(DiscardSome(42), 1) =>
                    req.bytes = <<177, 47, 162, 129, 110, 42, 131, 113, 105, 100, 1>>)

C12_Witness ==
    /\ req.r = ForQuery(DiscardSome(42), 1)
    /\ req.via = "for_query"
    /\ IsSome(req.wire)
    /\ Len(req.bytes) = 11

\* the encoded property map of the element, and how often a key is in it
PropBytes == node.properties.bytes
Occurrences(key) == Cardinality({i \in 1..Len(PropBytes) : PropBytes[i][1] = key})
\* what the call returns on a fresh copy of the element
Fresh(call) ==
    CASE call.op = "get" -> SingleVisitMap(call.key, PropBytes, None)
      [] call.op = "keys" -> KeysVisitMap(PropBytes)
      [] OTHER -> VisitMap(PropBytes)

\* C13 (as claimed): decoding a dictionary that holds the same key twice into
\* Bolt::Dictionary is a decode error, never a dictionary with one of the values.
C13_DuplicateKeyRejected ==
    \A i \in 1..Len(node.calls) :
        (node.calls[i].op \in {"to", "into"} /\ \E k \in PropKeys : Occurrences(k) > 1)
            => Returned(node.calls[i]).tag = "Err"

\* C14 (as claimed): get(key) over a property map that holds the key more than
\* once fails with a duplicate-field error whatever the values are, a null first
\* value included; entries under other keys never make it fail.
C14_DuplicateFieldRejected ==
    \A i \in 1..Len(node.calls) :
        LET call == node.calls[i] IN
        call.op = "get" =>
            IF Occurrences(call.key) > 1
            THEN Returned(call) = Err(DuplicateField(call.key))
            ELSE Returned(call).tag = "Ok"

\* C15: every get / keys / to / into returns what it returns on a fresh copy of
\* the element, whatever was decoded before (so a repeated get returns an equal
\* value), and get of a key that is not in the map returns Ok(None).
C15_DecodesIndependent ==
    \A i \in 1..Len(node.calls) :
        LET call == node.calls[i] IN
        /\ Returned(call) = Fresh(call)
        /\ (call.op = "get" /\ Occurrences(call.key) = 0) => Returned(call) = Ok(None)

C15_Witness ==
    /\ Len(node.calls) = 3
    /\ node.calls[1].op = "to"
    /\ node.calls[2] = Call("get", "age", Ok(Some(2)))
    /\ node.calls[3].op = "into"
    /\ Returned(node.calls[3]) = Returned(node.calls[1])

\* C16: keys() returns the keys of the encoded property map in the order of its
\* entries, one element per entry, whatever the values are.
C16_KeysInOrder ==
    \A i \in 1..Len(node.calls) :
        node.calls[i].op = "keys" =>
            /\ Returned(node.calls[i]).tag = "Ok"
            /\ Len(Returned(node.calls[i]).value) = Len(PropBytes)
            /\ \A j \in 1..Len(PropBytes) : Returned(node.calls[i]).value[j] = PropBytes[j][1]

C16_Witness ==
    /\ Len(node.calls) = 2
    /\ node.calls[2].op = "keys"
    /\ Returned(node.calls[2]) = Ok(<<"name", "age", "name">>)
    /\ PropBytes[1][2] /= PropBytes[3][2]

\* the structure was decoded as typ, with success
DecodedAs(typ) ==
    /\ strct.typ = typ
    /\ IsSome(strct.result)
    /\ Unwrap(strct.result).tag = "Ok"
\* the decoded value
Decoded == Unwrap(strct.result).value

\* C17: the field count alone decides the version 5 fields: a Node or an
\* UnboundRelationship of 3 fields has element_id = None and of 4 fields
\* Some(4th field); a Relationship of 5 fields has all three element ids None and
\* of 8 fields all three Some; the other fields are the same in both cases.
C17_ElementIdsByFieldCount ==
    /\ \A typ \in {"Node", "UnboundRelationship"} :
          DecodedAs(typ) =>
              /\ Len(strct.fields) = 3 => Decoded.optional = <<None>>
              /\ Len(strct.fields) = 4 => Decoded.optional = <<Some(strct.fields[4])>>
              /\ Decoded.required = SubSeq(strct.fields, 1, 3)
    /\ DecodedAs("Relationship") =>
          /\ Len(strct.fields) = 5 => Decoded.optional = <<None, None, None>>
          /\ Len(strct.fields) = 8 =>
                Decoded.optional = <<Some(strct.fields[6]), Some(strct.fields[7]),
                                     Some(strct.fields[8])>>
          /\ Decoded.required = SubSeq(strct.fields, 1, 5)

C17_Witness ==
    /\ DecodedAs("Relationship")
    /\ Len(strct.fields) = 8
    /\ Decoded.optional = <<Some(1), Some(2), Some(1)>>

\* C18 (as claimed): a structure whose field count is not one of the arities of
\* its type is rejected: with fewer fields than the required ones by a
\* missing-field error, with a count between the two arities by a decode error.
C18_OtherAritiesRejected ==
    \A typ \in StructTypes :
        LET def == StructDef(typ)
            n == Len(strct.fields)
        IN  (strct.typ = typ /\ strct.tag = def.tag) =>
                /\ n < Len(def.required) =>
                       Unwrap(strct.result) = Err(MissingField(def.required[n + 1]))
                /\ (n > Len(def.required) /\ n < Len(def.required) + Len(def.optional)) =>
                       Unwrap(strct.result).tag = "Err"

\* ---------------------------------------------------------------- paths
\* C19: a Path that deserialized has at least one node and an even number of
\* indices, and an encoded Path with no nodes or with an odd number of indices
\* deserializes to an error.
C19_PathChecked ==
    IsSome(path.result) =>
        /\ IsPath => ThePath.nodes /= << >> /\ Len(ThePath.indices) % 2 = 0
        /\ Len(path.fields) = 3 /\ (path.fields[1] = << >> \/ Len(path.fields[3]) % 2 = 1)
              => Unwrap(path.result).tag = "Err"

C19_Witness ==
    /\ IsSome(path.result)
    /\ Len(path.fields) = 3
    /\ path.fields[1] /= << >>
    /\ Len(path.fields[3]) = 3
    /\ Unwrap(path.result) = Err([kind |-> "custom", msg |-> "indices must be even"])

\* the index in nodes of the i-th node of the traversal: 0, then the second
\* index of each pair
TraversalIndex(p, i) == IF i = 1 THEN 0 ELSE p.indices[2 * (i - 1)]

\* n is the i-th node of the traversal
IsTraversalAt(p, i, n) ==
    /\ TraversalIndex(p, i) \in 0..(Len(p.nodes) - 1)
    /\ n = p.nodes[TraversalIndex(p, i) + 1]

\* C20: nodes() yields nodes[0] and then, pair by pair, the node the second
\* index of the pair names, repeats included; start() is the first and end()
\* the last node of that sequence.
C20_NodesInTraversalOrder ==
    IsPath =>
        LET pairs == Len(ThePath.indices) \div 2
        IN  /\ \A i \in 1..Len(path.yielded) : IsTraversalAt(ThePath, i, path.yielded[i])
            /\ IsSome(path.iter) /\ path.last = Nothing /\ ~Unwrap(path.iter).emit_start
                  => Len(path.yielded) = pairs + 1
            /\ path.start /= Nothing
                  => path.start.tag = "Some" /\ IsTraversalAt(ThePath, 1, path.start.node)
            /\ path.end.tag = "Some" => IsTraversalAt(ThePath, pairs + 1, path.end.node)

C20_Witness ==
    /\ IsPath
    /\ path.yielded = <<11, 12, 11>>
    /\ path.last = Nothing
    /\ path.start = Yield(11)
    /\ path.end = Yield(11)
\* ------------------------------------------------- the stream, continued
Pulls == {i \in 1..Len(sent) : sent[i].tag = PULL_TAG}

\* C24: a step of next_or_summary writes a request only with an empty buffer in
\* state Ready, and what it writes is PULL{n = fetch_size, qid}; with a row in
\* the buffer, while Pulling and once Complete it writes nothing; a stream
\* consumed to its end has sent 1 + (SUCCESS{has_more} received) PULLs, and no
\* PULL is sent outside a call.
C24_PullOnlyWhenReady ==
    [][/\ pc = "next" /\ (buffer /= << >> \/ state /= Ready) => sent' = sent
       /\ pc = "next" /\ sent' /= sent =>
             sent' = Append(sent, [tag |-> PULL_TAG,
                                   fields |-> << << <<"n", fetch_size>>, <<"qid", qid>> >> >>])
       /\ Cardinality(Pulls') > Cardinality(Pulls) => pc = "next"
       /\ IsComplete(state') /\ ~fin'.called => Cardinality(Pulls') = 1 + hist'.hasMore
      ]_vars

C24_Witness ==
    /\ IsComplete(state)
    /\ ~fin.called
    /\ hist.hasMore >= 1
    /\ Cardinality(Pulls) >= 2
    /\ Len(SelectSeq(out, IsRow)) = MaxRows

\* C25 (as claimed): a finish call on a stream that is not Complete, on a
\* connection that reports no error, has sent exactly one DISCARD when it
\* returns, whatever the server answered.
C25_FinishOneDiscard ==
    (/\ pc = "finished"
     /\ ~IsComplete(fin.startState)
     /\ hist.ioErrs = 0)
        => Len(sent) - fin.sentBefore = 1

\* C26: the buffer never holds more than one row and is empty whenever
\* next_or_summary is not running, so it is empty when finish is called, while
\* finish runs and when the stream is dropped.
C26_BufferAtMostOne ==
    /\ Len(buffer) <= 1
    /\ pc /= "next" => buffer = << >>

C26_Witness ==
    /\ pc = "finish_recv"
    /\ buffer = << >>
    /\ Len(SelectSeq(out, IsRow)) >= 1
    /\ inbox /= << >>
    /\ Head(inbox).type = "RECORD"

\* C27: a step of next_or_summary that returns a connection error leaves the
\* state, the buffer and the requests written as they were; the state is Ready
\* after a failed send and Pulling after a failed receive.
C27_IoErrorKeepsState ==
    [][pc = "next" /\ out' = Append(out, Err(IOError)) =>
          /\ state' = state
          /\ buffer' = buffer
          /\ sent' = sent
          /\ inbox' = inbox
          /\ state \in {Ready, Pulling}
      ]_vars

\* after a failed send the next call sent the PULL (once) and got the first row
C27_Witness ==
    /\ Len(out) >= 2
    /\ out[1] = Err(IOError)
    /\ out[2] = Row(1)
    /\ Cardinality(Pulls) = 1
\* ------------------------------------------------------- paths, continued
Abs(r) == IF r > 0 THEN r ELSE -r

\* the i-th index pair names a relationship and nodes of the path
SegmentInRange(p, i) ==
    /\ p.indices[2 * i - 1] /= 0
    /\ Abs(p.indices[2 * i - 1]) <= Len(p.rels)
    /\ p.indices[2 * i] \in 0..(Len(p.nodes) - 1)
    /\ TraversalIndex(p, i) \in 0..(Len(p.nodes) - 1)

\* the segment of the i-th index pair (r, k): from the end of the segment
\* before it to nodes[k], over rels[|r| - 1] bound in the direction r gives
SegmentAt(p, i) ==
    LET r == p.indices[2 * i - 1]
        from == p.nodes[TraversalIndex(p, i) + 1]
        to == p.nodes[p.indices[2 * i] + 1]
    IN  [start |-> from,
         relationship |-> [id |-> p.rels[Abs(r)],
                           start_node_id |-> IF r > 0 THEN from ELSE to,
                           end_node_id |-> IF r > 0 THEN to ELSE from],
         end |-> to]

\* C21: the i-th segment segments() yields starts where the one before ended
\* (nodes[0] for the first), ends at nodes[k], and carries rels[|r|-1] bound
\* from start to end for r > 0 and from end to start for r < 0; relationships()
\* yields the relationships of those segments in the same order; an iterator
\* that ran to its end yielded one item per index pair.
C21_SegmentsFollowIndices ==
    IsPath =>
        /\ \A i \in 1..Len(path.segments) :
              /\ SegmentInRange(ThePath, i)
              /\ path.segments[i] = SegmentAt(ThePath, i)
              /\ i > 1 => path.segments[i].start = path.segments[i - 1].end
        /\ \A i \in 1..Len(path.relationships) :
              /\ SegmentInRange(ThePath, i)
              /\ path.relationships[i] = SegmentAt(ThePath, i).relationship
        /\ IsSome(path.segs) /\ Unwrap(path.segs).state = "None" =>
              Len(IF Unwrap(path.segs).kind = "segments" THEN path.segments
                  ELSE path.relationships) = PathLen(ThePath)

C21_Witness ==
    /\ IsPath
    /\ IsSome(path.segs)
    /\ Unwrap(path.segs).state = "None"
    /\ path.segments =
           << [start |-> 11, relationship |-> Bind(101, 12, 11), end |-> 12],
              [start |-> 12, relationship |-> Bind(101, 12, 11), end |-> 11] >>
    /\ path.relationships = << Bind(101, 12, 11), Bind(101, 12, 11) >>

\* C28 (as claimed): iterating the segments or the relationships of a Path
\* that deserialized never fails.
C28_IterationNeverFails ==
    IsPath /\ IsSome(path.segs) => Unwrap(path.segs).state /= "panic"

\* The Iterator contract the nodes() iterator is held to: the positions of the
\* traversal not yet taken, in order; next takes the first, next_back the
\* last, nth(n) drops n and takes the one after them.
Take(rem, call) ==
    CASE call.op = "next" ->
            IF rem = << >> THEN [pos |-> 0, rem |-> rem]
            ELSE [pos |-> Head(rem), rem |-> Tail(rem)]
      [] call.op = "next_back" ->
            IF rem = << >> THEN [pos |-> 0, rem |-> rem]
            ELSE [pos |-> rem[Len(rem)], rem |-> SubSeq(rem, 1, Len(rem) - 1)]
      [] OTHER ->
            IF Len(rem) <= call.n THEN [pos |-> 0, rem |-> << >>]
            ELSE [pos |-> rem[call.n + 1], rem |-> SubSeq(rem, call.n + 2, Len(rem))]

RECURSIVE RemainingAfter(_)
RemainingAfter(i) ==
    IF i = 0 THEN [j \in 1..(PathLen(ThePath) + 1) |-> j]
    ELSE Take(RemainingAfter(i - 1), path.calls[i]).rem

\* every call returned the node of the position the contract gives it (or
\* nothing when none is left), so no position is yielded twice
YieldsFollowContract ==
    \A i \in 1..Len(path.calls) :
        LET pos == Take(RemainingAfter(i - 1), path.calls[i]).pos
            item == path.calls[i].item
        IN  /\ pos = 0 => item = Nothing
            /\ pos > 0 => item /= Nothing
            /\ item.tag = "Some" => pos > 0 /\ IsTraversalAt(ThePath, pos, item.node)

\* last() is the node of the last position left
LastFollowsContract ==
    LET rem == RemainingAfter(Len(path.calls))
        last == NodesLast(ThePath, Unwrap(path.iter))
    IN  /\ rem = << >> => last = Nothing
        /\ rem /= << >> => last /= Nothing
        /\ last.tag = "Some" => rem /= << >> /\ IsTraversalAt(ThePath, rem[Len(rem)], last.node)

\* the lengths before anything is taken
InitialLengths ==
    /\ path.calls = << >> => NodesLen(ThePath, Unwrap(path.iter)) = PathLen(ThePath) + 1
    /\ SegmentsLen(ThePath, SegmentsIterNew("segments")) = PathLen(ThePath)
    /\ SegmentsLen(ThePath, SegmentsIterNew("relationships")) = PathLen(ThePath)
    /\ PathLen(ThePath) * 2 = Len(ThePath.indices)

Yields == {i \in 1..Len(path.calls) : path.calls[i].item.tag = "Some"}

\* C30 (as claimed): ... and len()/size_hint/count equal the number of
\* positions not yet yielded.
C30_LenCountsNotYielded ==
    IsSome(path.iter) /\ path.last /= Panic =>
        /\ YieldsFollowContract
        /\ LastFollowsContract
        /\ InitialLengths
        /\ NodesLen(ThePath, Unwrap(path.iter)) = PathLen(ThePath) + 1 - Cardinality(Yields)

\* C30 (amended): under every interleaving of next, next_back and nth on the
\* nodes() iterator, each call yields the node of the position the Iterator
\* contract gives it, so each position at most once; len()/size_hint/count
\* equal the number of positions neither yielded nor skipped by an nth;
\* last() is the node of the last of them; and initially nodes().len() is
\* path.len() + 1 and segments().len() = relationships().len() = path.len() =
\* indices.len() / 2.
C30_LenCountsRemaining ==
    IsSome(path.iter) /\ path.last /= Panic =>
        /\ YieldsFollowContract
        /\ LastFollowsContract
        /\ InitialLengths
        /\ NodesLen(ThePath, Unwrap(path.iter)) = Len(RemainingAfter(Len(path.calls)))

C30_Witness ==
    /\ IsSome(path.iter)
    /\ Len(path.calls) = 2
    /\ path.calls[1] = [op |-> "nth", n |-> 1, item |-> Yield(12)]
    /\ path.calls[2] = [op |-> "next_back", n |-> 0, item |-> Yield(11)]
    /\ ThePath.indices = <<1, 1, 1, 0>>
    /\ NodesLen(ThePath, Unwrap(path.iter)) = 0
\* ------------------------------------------------- structures of any tag
\* C22 (as claimed): decoding a structure into the generic value never
\* crashes; for a tag of the data model a Node of 3 or 4 fields gives the Node
\* variant, and any other tag gives a decode error; a typed decode of a
\* structure with another tag than its own gives a decode error.
C22_EveryTagDecodes ==
    /\ strct.typ = "Bolt" =>
          /\ Unwrap(strct.result).tag /= "panic"
          /\ strct.tag \notin StructTags => Unwrap(strct.result).tag = "Err"
          /\ strct.tag = 78 /\ Len(strct.fields) >= 3 =>
                /\ Unwrap(strct.result).tag = "Ok"
                /\ Unwrap(strct.result).value.t = "Node"
    /\ \A typ \in StructTypes :
          strct.typ = typ /\ strct.tag /= StructDef(typ).tag =>
              Unwrap(strct.result).tag = "Err"
\* ------------------------------------------------------ many(n)
\* C23: Pull::many(n) and Discard::many(n) fail with IntegerOverflow("n")
\* exactly when n is outside i64; otherwise they succeed and the request
\* carries n itself (or -1, everything, for a negative n), never a number that
\* n wrapped or was truncated to.
C23_ManyOverflow ==
    IsSome(req.many) =>
        LET n == Unwrap(req.many).n IN
        /\ n \notin I64 <=> req.failed = Some(IntegerOverflow("n"))
        /\ n \notin I64 => ~req.built
        /\ n \in I64 =>
              /\ req.built
              /\ req.failed = None
              /\ req.r.msg = Unwrap(req.many).msg
              /\ req.r.extra.n = (IF n >= 0 THEN n ELSE -1)

C23_Witness ==
    /\ req.many = Some([msg |-> "DISCARD", n |-> MaxOf("i64") + 1])
    /\ req.failed = Some(IntegerOverflow("n"))
    /\ ~req.built
\* ------------------------------------------------- integer conversions
\* C29 (as claimed): From keeps the value of every u8/u16/u32/i8/i16/i32/i64;
\* TryFrom for u64/usize/isize/u128/i128 is an error exactly outside i64 and
\* else keeps the value; an integer decoded as i64 or as u64 becomes the
\* Integer of the same value.
C29_IntegersPreserved ==
    /\ num.op = "from" => num.bolt = Some(BoltInteger(num.v))
    /\ num.op = "try_from" =>
          /\ num.v \in I64 => num.result = Some(Ok(BoltInteger(num.v)))
          /\ num.v \notin I64 => Unwrap(num.result).tag = "Err"
    /\ num.op = "visit" => num.result = Some(Ok(BoltInteger(num.v)))
====
